---- MODULE Spec2Model ----
(***************************************************************************)
(* SnuggeryArchitectHost: resolution of builder specifiers into builder    *)
(* descriptors, loading of builder implementations and resolution of the   *)
(* options of a target.                                                    *)
(*                                                                         *)
(* Program strings are sequences of atoms: an atom is one separator        *)
(* character (":", ",", "/", "#") or a chunk of text that holds no         *)
(* separator ("pkg", "foo", "$direct", "package.json", ".", "..").         *)
(* Runtime values (JSON documents, module exports) are tagged records of    *)
(* one shape, so that any two values can be compared.                      *)
(***************************************************************************)
EXTENDS Integers, Sequences, FiniteSets, TLC

(***************************************************************************)
(* Bounds of the explored inputs.                                          *)
(***************************************************************************)
\* longest builder specifier, in atoms
MaxSpecLen == 4
\* longest configuration list of a target, in atoms
MaxConfLen == 3

(***************************************************************************)
(* Runtime values.                                                          *)
(***************************************************************************)
Value(t, s, b, n, o, sym) == [t |-> t, s |-> s, b |-> b, n |-> n, o |-> o, sym |-> sym]

Undefined == Value("undefined", <<>>, FALSE, 0, <<>>, FALSE)
Null == Value("null", <<>>, FALSE, 0, <<>>, FALSE)
Str(s) == Value("string", s, FALSE, 0, <<>>, FALSE)
Bool(b) == Value("boolean", <<>>, b, 0, <<>>, FALSE)
Num(n) == Value("number", <<>>, FALSE, n, <<>>, FALSE)
Obj(o) == Value("object", <<>>, FALSE, 0, o, FALSE)
Arr(o) == Value("array", <<>>, FALSE, 0, o, FALSE)
\* a function value; s names it
Fn(s) == Value("function", s, FALSE, 0, <<>>, FALSE)
\* an object produced by createBuilder: it carries [BuilderSymbol]: true
TaggedBuilder(s) == Value("object", s, FALSE, 0, <<>>, TRUE)

\* the empty object {}
EmptyObject == Obj(<<>>)

\* v == null (null or undefined)
IsNullish(v) == v.t \in {"null", "undefined"}

\* typeof v
TypeOf(v) ==
  CASE v.t \in {"object", "array", "null"} -> "object"
    [] OTHER -> v.t

\* Array.isArray(v)
IsArray(v) == v.t = "array"

\* isJsonObject of @angular-devkit/core
isJsonObject(v) == ~IsNullish(v) /\ TypeOf(v) = "object" /\ ~IsArray(v)

\* hasOwnProperty.call(v, key)
HasOwn(v, key) == v.t \in {"object", "array"} /\ key \in DOMAIN v.o

\* v[key] on a value that is not nullish
Get(v, key) == IF HasOwn(v, key) THEN v.o[key] ELSE Undefined

\* the key of a one-atom property name
K(a) == <<a>>

(***************************************************************************)
(* Strings.                                                                *)
(***************************************************************************)
\* s.includes(c)
Includes(s, c) == \E i \in 1..Len(s) : s[i] = c

\* s.indexOf(c), one-based; only used when s includes c
IndexOf(s, c) == CHOOSE i \in 1..Len(s) : s[i] = c /\ \A j \in 1..(i - 1) : s[j] # c

\* s.lastIndexOf(c), one-based, 0 when absent
LastIndexOf(s, c) ==
  IF Includes(s, c)
  THEN CHOOSE i \in 1..Len(s) : s[i] = c /\ \A j \in (i + 1)..Len(s) : s[j] # c
  ELSE 0

\* In the recursive definitions below, `x \in {e}` binds x to the value of e,
\* so that the recursive call receives values and e is computed once.

RECURSIVE SplitAll(_, _)
\* s.split(sep) without a limit: every piece between separators
SplitAll(s, sep) ==
  IF ~Includes(s, sep) THEN <<s>>
  ELSE CHOOSE pieces \in
         {<<SubSeq(s, 1, cut[1] - 1)>> \o SplitAll(cut[2], sep) :
            cut \in {<<IndexOf(s, sep), SubSeq(s, IndexOf(s, sep) + 1, Len(s))>>}} : TRUE

\* the pieces cut to the limit
Limit(all, limit) == IF Len(all) > limit THEN SubSeq(all, 1, limit) ELSE all

\* a plausible slip: a specifier without separator yields an empty second piece
SplitPadding(s, sep, limit) ==
  CHOOSE pieces \in
    {IF Len(all) = 1 THEN <<all[1], <<>>>> ELSE Limit(all, limit) :
       all \in {SplitAll(s, sep)}} : TRUE

\* s.split(sep, limit): the pieces are computed first, then cut to the limit
Split(s, sep, limit) ==
  CHOOSE pieces \in {Limit(all, limit) : all \in {SplitAll(s, sep)}} : TRUE

(***************************************************************************)
(* Paths (posix flavour of node's path module).                            *)
(***************************************************************************)
RECURSIVE JoinSegments(_)
\* segments joined by "/"
JoinSegments(segs) ==
  IF Len(segs) = 0 THEN <<>>
  ELSE IF Len(segs) = 1 THEN segs[1]
  ELSE CHOOSE p \in {segs[1] \o <<"/">> \o JoinSegments(rest) : rest \in {Tail(segs)}} : TRUE

\* one step of normalization: acc after the segment seg
PushSegment(acc, seg, isAbsolute) ==
  IF seg = <<>> \/ seg = <<".">> THEN acc
  ELSE IF seg = <<"..">>
  THEN IF Len(acc) > 0 /\ acc[Len(acc)] # <<"..">>
       THEN SubSeq(acc, 1, Len(acc) - 1)
       ELSE IF isAbsolute THEN acc ELSE Append(acc, seg)
  ELSE Append(acc, seg)

RECURSIVE NormalizeSegments(_, _, _)
\* resolves "." and ".." and drops empty segments; acc is the result so far
NormalizeSegments(segs, acc, isAbsolute) ==
  IF Len(segs) = 0 THEN acc
  ELSE CHOOSE r \in
         {NormalizeSegments(rest, next, isAbsolute) :
            rest \in {Tail(segs)}, next \in {PushSegment(acc, Head(segs), isAbsolute)}} : TRUE

\* Normalize on a path given by its segments
NormalizeBody(p, body) ==
  IF Len(body) = 0
  THEN IF p[1] = "/" THEN <<"/">>
       ELSE IF p[Len(p)] = "/" THEN <<".", "/">> ELSE <<".">>
  ELSE (IF p[1] = "/" THEN <<"/">> ELSE <<>>) \o body
       \o (IF p[Len(p)] = "/" THEN <<"/">> ELSE <<>>)

\* path.normalize(p)
Normalize(p) ==
  IF Len(p) = 0 THEN <<".">>
  ELSE CHOOSE r \in
         {NormalizeBody(p, JoinSegments(segs)) :
            segs \in {NormalizeSegments(SplitAll(p, "/"), <<>>, p[1] = "/")}} : TRUE

\* path.join(a, b): empty arguments are skipped, the rest is normalized
join(a, b) ==
  CHOOSE r \in
    {Normalize(p) :
       p \in {IF Len(a) = 0 THEN b ELSE IF Len(b) = 0 THEN a ELSE a \o <<"/">> \o b}} : TRUE

RECURSIVE StripTrailingSlashes(_)
\* p without its trailing slashes, the first character is kept
StripTrailingSlashes(p) ==
  IF Len(p) > 1 /\ p[Len(p)] = "/"
  THEN CHOOSE r \in {StripTrailingSlashes(q) : q \in {SubSeq(p, 1, Len(p) - 1)}} : TRUE
  ELSE p

\* dirname on a path without trailing slashes, i the index of its last "/"
DirnameAt(q, i) ==
  IF i = 0 THEN <<".">>
  ELSE IF i = 1 THEN <<"/">>
  ELSE SubSeq(q, 1, i - 1)

\* path.dirname(p)
dirname(p) ==
  IF Len(p) = 0 THEN <<".">>
  ELSE CHOOSE r \in
         {DirnameAt(q, LastIndexOf(q, "/")) : q \in {StripTrailingSlashes(p)}} : TRUE

\* path.basename(p)
basename(p) ==
  CHOOSE r \in
    {IF q = <<"/">> THEN <<>> ELSE SubSeq(q, LastIndexOf(q, "/") + 1, Len(q)) :
       q \in {StripTrailingSlashes(p)}} : TRUE

(***************************************************************************)
(* The environment of a host: the two base directories, the module        *)
(* resolution of the runtime, the documents `require` can load, the        *)
(* modules `import` can load, and the projects of the workspace.           *)
(*   resolve : <<base directory, request>> -> resolved absolute path       *)
(*   docs    : path -> the value `require(path)` returns                   *)
(*   modules : path -> the module namespace `import(path)` yields          *)
(* A pair or path outside the domain makes the call throw.                 *)
(***************************************************************************)
Empty == [k \in {} |-> Undefined]

StartCwd == <<"/", "s">>
WorkspaceBase == <<"/", "w">>
PkgDir(base) == base \o <<"/", "node_modules", "/", "pkg">>
PackageJsonPath(base) == PkgDir(base) \o <<"/", "package.json">>
BuildersJsonPath(base) == PkgDir(base) \o <<"/", "builders.json">>
ModDir == StartCwd \o <<"/", "m">>

\* builder entries a manifest may declare
EntryA ==
  Obj(K("implementation") :> Str(<<".", "/", "a", "#", "run">>)
      @@ K("schema") :> Bool(TRUE)
      @@ K("description") :> Str(<<"A">>))
EntryB ==
  Obj(K("implementation") :> Str(<<".", "/", "b">>)
      @@ K("schema") :> Str(<<".", "/", "schema.json">>))
EntryBad == Obj(K("implementation") :> Str(<<".", "/", "c">>))

EntryChoices == {"absent", "A", "B", "Bad"}
EntryOf(choice) ==
  CASE choice = "A" -> EntryA
    [] choice = "B" -> EntryB
    [] OTHER -> EntryBad

\* the map { foo: <entry> } or {}
EntryMap(choice) ==
  IF choice = "absent" THEN Obj(Empty) ELSE Obj(K("foo") :> EntryOf(choice))

\* a manifest document: `builders` map, and `executors` map unless exec = "nomap"
ManifestDoc(native, exec) ==
  Obj(K("builders") :> EntryMap(native)
      @@ (IF exec = "nomap" THEN Empty ELSE K("executors") :> EntryMap(exec)))

\* a document whose `builders` points to builders.json; its own `executors`
\* must not be used
PointerDoc ==
  Obj(K("builders") :> Str(<<".", "/", "builders.json">>)
      @@ K("executors") :> Obj(K("foo") :> EntryA @@ K("pkg") :> EntryA))

\* the option schema next to a manifest: it carries the nx marker
SchemaDoc == Obj(K("cli") :> Str(<<"nx">>) @@ K("type") :> Str(<<"object">>))

\* modules every environment holds
FixedModules ==
  LET pkgModules(base) ==
        (PkgDir(base) \o <<"/", "a">>)
          :> Obj(K("run") :> TaggedBuilder(<<"a.run">>) @@ K("default") :> Fn(<<"a.default">>))
        @@ (PkgDir(base) \o <<"/", "b">>) :> Obj(K("default") :> Fn(<<"b.default">>))
  IN pkgModules(StartCwd) @@ pkgModules(WorkspaceBase)
     @@ (ModDir \o <<"/", "builder">>)
          :> Obj(K("default") :> TaggedBuilder(<<"m.builder">>) @@ K("run") :> Fn(<<"m.run">>))
     @@ (ModDir \o <<"/", "executor">>) :> Obj(K("default") :> Fn(<<"m.executor">>))
     @@ (ModDir \o <<"/", "plain">>)
          :> Obj(K("default") :> Obj(K("x") :> Num(1)) @@ K("run") :> TaggedBuilder(<<"m.plain.run">>))
     @@ (ModDir \o <<"/", "text">>) :> Obj(K("default") :> Str(<<"text">>))
     @@ (ModDir \o <<"/", "bare">>) :> Obj(K("other") :> Num(1))

\* the implementation paths loadBuilder is tried on; "missing" is no module
ModulePaths ==
  {ModDir \o <<"/", n>> : n \in {"builder", "executor", "plain", "text", "bare", "missing"}}

\* where the package lives and whether its manifest is reached through a pointer
PackageLayouts == {"start", "workspace", "pointer"}

PackageFiles(layout, native, exec) ==
  LET base == IF layout = "start" THEN StartCwd ELSE WorkspaceBase
      request == <<"pkg", "/", "package.json">>
  IN [resolve |-> <<base, request>> :> PackageJsonPath(base),
      docs |-> (IF layout = "pointer"
                THEN PackageJsonPath(base) :> PointerDoc
                     @@ BuildersJsonPath(base) :> ManifestDoc(native, exec)
                ELSE PackageJsonPath(base) :> ManifestDoc(native, exec))
               @@ (PkgDir(base) \o <<"/", "schema.json">>) :> SchemaDoc,
      manifestPath |-> IF layout = "pointer" THEN BuildersJsonPath(base)
                       ELSE PackageJsonPath(base)]

\* what a directly referenced module exports
DirectShapes ==
  {"builder", "selfBuilder", "info", "entry", "badEntry", "array", "primitive", "failing", "none"}

DirectInfo ==
  Obj(K("type") :> Str(<<"builder">>) @@ K("implementation") :> Str(<<".", "/", "b">>))

DirectModule(shape) ==
  CASE shape = "builder" -> Obj(K("default") :> TaggedBuilder(<<"direct">>))
    [] shape = "selfBuilder" -> TaggedBuilder(<<"self">>)
    [] shape = "info" -> Obj(K("default") :> DirectInfo)
    [] shape = "entry" -> Obj(K("default") :> EntryA)
    [] shape = "badEntry" -> Obj(K("default") :> EntryBad)
    [] shape = "array" -> Obj(K("default") :> Arr(<<>>))
    [] OTHER -> Obj(K("default") :> Str(<<"text">>))

\* file names the request "foo" may resolve to
DirectFileNames == {<<"foo.js">>, <<"foo", "#", "run">>}

DirectFiles(shape, fileName, base) ==
  LET path == base \o <<"/">> \o fileName
  IN IF shape = "none"
     THEN [resolve |-> Empty, docs |-> Empty, modules |-> Empty]
     ELSE [resolve |-> <<base, <<"foo">>>> :> path,
           docs |-> IF shape = "info" THEN path :> DirectInfo ELSE Empty,
           modules |-> IF shape = "failing" THEN Empty ELSE path :> DirectModule(shape)]

\* option objects of targets
OptionObjects ==
  {Obj(K("a") :> Num(1) @@ K("b") :> Obj(K("x") :> Num(1))),
   Obj(K("b") :> Obj(K("y") :> Num(1))),
   Obj(K("a") :> Num(2) @@ K("c") :> Obj(Empty))}

ConfigurationMaps ==
  {Undefined} \cup
  {Obj((IF c1 = Undefined THEN Empty ELSE K("c1") :> c1)
       @@ (IF c2 = Undefined THEN Empty ELSE K("c2") :> c2)) :
     c1 \in {Undefined} \cup OptionObjects, c2 \in {Undefined, Obj(K("a") :> Num(2))}}

\* the workspace's projects: one project "app" with one target "build"
Projects(options, configurations) ==
  K("app") :> [targets |->
    K("build") :> [builder |-> <<"pkg", ":", "foo">>,
                   options |-> options,
                   configurations |-> configurations]]

World(hasWorkspace, package, direct, options, configurations) ==
  [startCwd |-> StartCwd,
   hasWorkspace |-> hasWorkspace,
   basePath |-> WorkspaceBase,
   projects |-> Projects(options, configurations),
   resolve |-> package.resolve @@ direct.resolve,
   docs |-> package.docs @@ direct.docs,
   modules |-> direct.modules @@ FixedModules,
   manifestPath |-> package.manifestPath]

DefaultPackage == PackageFiles("start", "A", "B")
DefaultDirect == DirectFiles("none", <<"foo.js">>, StartCwd)
DefaultOptions == Obj(K("a") :> Num(1) @@ K("b") :> Obj(K("x") :> Num(1)))
DefaultConfigurations == Obj(K("c1") :> Obj(K("b") :> Obj(K("y") :> Num(1))))

\* environments that vary the package's manifest
PackageWorlds ==
  {World(layout # "start" \/ hasWorkspace, PackageFiles(layout, native, exec),
         DefaultDirect, DefaultOptions, DefaultConfigurations) :
     layout \in PackageLayouts, native \in EntryChoices,
     exec \in EntryChoices \cup {"nomap"}, hasWorkspace \in BOOLEAN}

\* environments that vary the directly referenced module
DirectWorlds ==
  {World(base = WorkspaceBase, DefaultPackage, DirectFiles(shape, fileName, base),
         DefaultOptions, DefaultConfigurations) :
     shape \in DirectShapes, fileName \in DirectFileNames,
     base \in {StartCwd, WorkspaceBase}}

\* environments that vary the target definition
TargetWorlds ==
  {World(TRUE, DefaultPackage, DefaultDirect, options, configurations) :
     options \in {Undefined} \cup OptionObjects,
     configurations \in ConfigurationMaps}

\* what a candidate directory holds of package "pkg": nothing, a package.json
\* that is a manifest, only a main file that is a manifest, a package.json
\* that cannot be loaded, or a package.json without `builders`
SearchPresences == {"none", "json", "bare", "broken", "malformed"}

\* the file a request for "pkg" resolves to in the directory base
SearchPath(base, presence) ==
  IF presence = "bare" THEN PkgDir(base) \o <<"/", "main.json">>
  ELSE PackageJsonPath(base)

SearchFiles(base, presence) ==
  [resolve |->
     CASE presence = "none" -> Empty
       [] presence = "bare" -> <<base, <<"pkg">>>> :> SearchPath(base, presence)
       [] OTHER -> <<base, <<"pkg", "/", "package.json">>>> :> SearchPath(base, presence),
   docs |->
     CASE presence \in {"json", "bare"} ->
            SearchPath(base, presence) :> ManifestDoc("A", "nomap")
       [] presence = "malformed" ->
            SearchPath(base, presence) :> Obj(K("executors") :> EntryMap("A"))
       [] OTHER -> Empty]

\* an environment for the search: the workspace, when there is one, is the
\* start directory itself (sameBase) or the directory /w
SearchWorld(hasWorkspace, sameBase, atStart, atWorkspace) ==
  LET basePath == IF sameBase THEN StartCwd ELSE WorkspaceBase
      start == SearchFiles(StartCwd, atStart)
      other == SearchFiles(WorkspaceBase, IF sameBase THEN "none" ELSE atWorkspace)
  IN [World(hasWorkspace, DefaultPackage, DefaultDirect, DefaultOptions,
            DefaultConfigurations)
        EXCEPT !.basePath = basePath,
               !.resolve = start.resolve @@ other.resolve,
               !.docs = start.docs @@ other.docs,
               !.manifestPath =
                 IF atStart = "none" /\ hasWorkspace /\ ~sameBase
                 THEN SearchPath(WorkspaceBase, atWorkspace)
                 ELSE SearchPath(StartCwd, atStart)]

\* environments that vary where the package is found
SearchWorlds ==
  {SearchWorld(hasWorkspace, sameBase, atStart, atWorkspace) :
     hasWorkspace \in BOOLEAN, sameBase \in BOOLEAN,
     atStart \in SearchPresences, atWorkspace \in {"none", "json", "bare"}}

\* a document whose `builders` is the relative path pointer; its own
\* `executors` must not be used
PointerTo(pointer) ==
  Obj(K("builders") :> Str(pointer) @@ K("executors") :> EntryMap("A"))

\* shapes of the chain of documents that starts at the package.json of "pkg"
ChainShapes ==
  {"nested", "self", "loop", "missingHop", "noBuilders", "numberBuilders",
   "arrayBuilders", "finalExecutors"}

\* the documents of a chain, and the document its pointers end at
ChainDocs(shape) ==
  LET start == PackageJsonPath(StartCwd)
      sub == PkgDir(StartCwd) \o <<"/", "sub">>
      b1 == sub \o <<"/", "b1.json">>
      b2 == sub \o <<"/", "b2.json">>
      decoy == PkgDir(StartCwd) \o <<"/", "b2.json">>
      toB1 == PointerTo(<<".", "/", "sub", "/", "b1.json">>)
  IN CASE shape = "nested" ->
            [docs |-> start :> toB1
                      @@ b1 :> PointerTo(<<".", "/", "b2.json">>)
                      @@ b2 :> ManifestDoc("B", "nomap")
                      @@ decoy :> ManifestDoc("A", "A"),
             final |-> b2]
       [] shape = "finalExecutors" ->
            [docs |-> start :> toB1
                      @@ b1 :> PointerTo(<<"..", "/", "b2.json">>)
                      @@ decoy :> ManifestDoc("A", "B")
                      @@ b2 :> ManifestDoc("A", "nomap"),
             final |-> decoy]
       [] shape = "self" ->
            [docs |-> start :> PointerTo(<<".", "/", "package.json">>),
             final |-> start]
       [] shape = "loop" ->
            [docs |-> start :> toB1
                      @@ b1 :> PointerTo(<<"..", "/", "package.json">>),
             final |-> start]
       [] shape = "missingHop" ->
            [docs |-> start :> toB1, final |-> start]
       [] shape = "noBuilders" ->
            [docs |-> start :> toB1 @@ b1 :> Obj(K("executors") :> EntryMap("A")),
             final |-> b1]
       [] shape = "numberBuilders" ->
            [docs |-> start :> toB1
                      @@ b1 :> Obj(K("builders") :> Num(1) @@ K("executors") :> EntryMap("A")),
             final |-> b1]
       [] OTHER ->
            [docs |-> start :> toB1
                      @@ b1 :> Obj(K("builders") :> Arr(<<>>) @@ K("executors") :> EntryMap("A")),
             final |-> b1]

\* environments that vary the chain of `builders` pointers
ChainWorlds ==
  {[World(FALSE, DefaultPackage, DefaultDirect, DefaultOptions, DefaultConfigurations)
      EXCEPT !.docs = ChainDocs(shape).docs
                      @@ (PkgDir(StartCwd) \o <<"/", "sub", "/", "schema.json">>) :> SchemaDoc
                      @@ (PkgDir(StartCwd) \o <<"/", "schema.json">>) :> SchemaDoc,
             !.manifestPath = ChainDocs(shape).final] :
     shape \in ChainShapes}

Worlds ==
  PackageWorlds \cup DirectWorlds \cup TargetWorlds \cup SearchWorlds \cup ChainWorlds

(***************************************************************************)
(* Outcomes of a call: it returns a value, throws an error, or never       *)
(* finishes.  `io` lists, in order, the resolutions, document loads and    *)
(* module imports the call attempted.                                      *)
(***************************************************************************)
NoError == [name |-> "", message |-> "", args |-> <<>>]
Return(value, io) == [kind |-> "return", error |-> NoError, value |-> value, io |-> io]
Throw(name, message, args, io) ==
  [kind |-> "throw", error |-> [name |-> name, message |-> message, args |-> args],
   value |-> Undefined, io |-> io]
Diverge(io) == [kind |-> "diverge", error |-> NoError, value |-> Undefined, io |-> io]

\* one attempted operation on the file system or module loader
Event(op, base, path) == [op |-> op, base |-> base, path |-> path]

\* a bug: the candidate directories are not de-duplicated
BasePathsWithDuplicates(w) ==
  IF w.hasWorkspace THEN <<w.startCwd, w.basePath>> ELSE <<w.startCwd>>

\* new Set([startCwd, workspace.basePath]) in iteration order
BasePaths(w) ==
  IF w.hasWorkspace /\ w.basePath # w.startCwd
  THEN <<w.startCwd, w.basePath>>
  ELSE <<w.startCwd>>

\* the end of loadBuilderJson: the checks on the final document and the result
ManifestResult(buildersJsonPath, buildersJson, packageName, builderSpec, io) ==
  IF IsNullish(Get(buildersJson, K("builders")))
  THEN Throw("InvalidBuilderError", "No builder configuration found",
             <<packageName, builderSpec>>, io)
  ELSE IF ~isJsonObject(Get(buildersJson, K("builders")))
  THEN Throw("InvalidBuilderError", "doesn't match the schema",
             <<buildersJsonPath, builderSpec>>, io)
  ELSE Return(<<Str(buildersJsonPath),
                Get(buildersJson, K("builders")),
                IF isJsonObject(Get(buildersJson, K("executors")))
                THEN Get(buildersJson, K("executors")) ELSE Undefined>>, io)

RECURSIVE FollowBuilders(_, _, _, _, _, _, _)
RECURSIVE RequireNext(_, _, _, _, _, _)
\* a bug: a document met a second time is reported as a failure
RequireNextGuarded(w, next, seen, packageName, builderSpec, io) ==
  IF next \in seen \/ next \notin DOMAIN w.docs
  THEN Throw("InvalidBuilderError", "Failed to load builder configuration file",
             <<next>>, io)
  ELSE FollowBuilders(w, next, w.docs[next], seen \cup {next}, packageName, builderSpec, io)

\* the body of the while loop of loadBuilderJson: loads the document next.
\* seen holds the paths loaded so far; loading one of them again repeats the
\* loop's state, so the loop never ends
RequireNext(w, next, seen, packageName, builderSpec, io) ==
  IF next \in seen THEN Diverge(io)
  ELSE IF next \notin DOMAIN w.docs
  THEN Throw("InvalidBuilderError", "Failed to load builder configuration file",
             <<next>>, io)
  ELSE FollowBuilders(w, next, w.docs[next], seen \cup {next}, packageName, builderSpec, io)

\* the while loop of loadBuilderJson, on the document buildersJson loaded from
\* buildersJsonPath
FollowBuilders(w, buildersJsonPath, buildersJson, seen, packageName, builderSpec, io) ==
  IF IsNullish(buildersJson)
  THEN Throw("TypeError", "Cannot read properties of null", <<>>, io)
  ELSE IF TypeOf(Get(buildersJson, K("builders"))) = "string"
  THEN CHOOSE outcome \in
         {RequireNext(w, next, seen, packageName, builderSpec,
                      Append(io, Event("require", <<>>, next))) :
            next \in {join(dirname(buildersJsonPath), Get(buildersJson, K("builders")).s)}} :
         TRUE
  ELSE ManifestResult(buildersJsonPath, buildersJson, packageName, builderSpec, io)

\* loadBuilderJson from the resolved starting document on
LoadManifest(w, startJsonPath, packageName, builderSpec, io) ==
  IF startJsonPath \notin DOMAIN w.docs
  THEN Throw("InvalidBuilderError", "Failed to load builder configuration file",
             <<startJsonPath>>, Append(io, Event("require", <<>>, startJsonPath)))
  ELSE FollowBuilders(w, startJsonPath, w.docs[startJsonPath], {startJsonPath},
                      packageName, builderSpec,
                      Append(io, Event("require", <<>>, startJsonPath)))

\* require.resolve(join(packageName, 'package.json')), then
\* require.resolve(packageName): the resolved path, or "none"
ResolvePackage(w, basePath, packageName, first) ==
  IF <<basePath, first>> \in DOMAIN w.resolve
  THEN [found |-> TRUE, path |-> w.resolve[<<basePath, first>>],
        io |-> <<Event("resolve", basePath, first)>>]
  ELSE IF <<basePath, packageName>> \in DOMAIN w.resolve
  THEN [found |-> TRUE, path |-> w.resolve[<<basePath, packageName>>],
        io |-> <<Event("resolve", basePath, first), Event("resolve", basePath, packageName)>>]
  ELSE [found |-> FALSE, path |-> <<>>,
        io |-> <<Event("resolve", basePath, first), Event("resolve", basePath, packageName)>>]

RECURSIVE SearchManifest(_, _, _, _, _)
\* the loop of loadBuilderJson over the candidate directories
SearchManifest(w, bases, packageName, builderSpec, io) ==
  IF Len(bases) = 0
  THEN Throw("UnknownBuilderError", "Couldn't find builder configuration",
             <<packageName, builderSpec>>, io)
  ELSE CHOOSE outcome \in
         {IF start.found
          THEN LoadManifest(w, start.path, packageName, builderSpec, io \o start.io)
          ELSE SearchManifest(w, Tail(bases), packageName, builderSpec, io \o start.io) :
            start \in {ResolvePackage(w, Head(bases), packageName,
                                      join(packageName, <<"package.json">>))}} : TRUE

loadBuilderJson(w, packageName, builderSpec) ==
  SearchManifest(w, BasePaths(w), packageName, builderSpec, <<>>)

\* isBuilder on an object or function: BuilderSymbol in value && value[BuilderSymbol]
isBuilder(value) == value.sym

\* the three accepted shapes of a directly referenced module
BuilderShape(resolvedPath, schemaOrBuilder) ==
  IF isBuilder(schemaOrBuilder)
  THEN Obj(K("schema") :> Bool(TRUE) @@ K("implementation") :> Str(basename(resolvedPath)))
  ELSE IF TypeOf(Get(schemaOrBuilder, K("type"))) = "string"
          /\ TypeOf(Get(schemaOrBuilder, K("implementation"))) = "string"
  THEN Obj(K("schema") :> Str(basename(resolvedPath))
           @@ K("implementation") :> Get(schemaOrBuilder, K("implementation")))
  ELSE schemaOrBuilder

\* module.default ?? module
DefaultOrModule(module) ==
  IF IsNullish(Get(module, K("default"))) THEN module ELSE Get(module, K("default"))

\* resolveBuilderFromPath once the module is imported
DirectResult(resolvedPath, path, schemaOrBuilder, io) ==
  IF IsNullish(schemaOrBuilder)
     \/ TypeOf(schemaOrBuilder) # "object"
     \/ IsArray(schemaOrBuilder)
  THEN Throw("InvalidBuilderError", "does not contain a valid builder",
             <<resolvedPath, path>>, io)
  ELSE Return(<<Str(resolvedPath), BuilderShape(resolvedPath, schemaOrBuilder), Null>>, io)

\* resolveBuilderFromPath once the path is resolved
ImportDirect(w, resolvedPath, path, io) ==
  IF resolvedPath \notin DOMAIN w.modules
  THEN Throw("InvalidBuilderError", "Failed to load builder file", <<resolvedPath, path>>, io)
  ELSE DirectResult(resolvedPath, path, DefaultOrModule(w.modules[resolvedPath]), io)

RECURSIVE SearchDirect(_, _, _, _)
\* the loop of resolveBuilderFromPath over the candidate directories
SearchDirect(w, bases, path, io) ==
  IF Len(bases) = 0
  THEN Throw("UnknownBuilderError", "Can't resolve builder", <<path>>, io)
  ELSE IF <<Head(bases), path>> \notin DOMAIN w.resolve
  THEN SearchDirect(w, Tail(bases), path, Append(io, Event("resolve", Head(bases), path)))
  ELSE ImportDirect(w, w.resolve[<<Head(bases), path>>], path,
                    io \o <<Event("resolve", Head(bases), path),
                            Event("import", <<>>, w.resolve[<<Head(bases), path>>])>>)

\* returns <<path, info, isNx>>; isNx stays null on this route
resolveBuilderFromPath(w, path) == SearchDirect(w, BasePaths(w), path, <<>>)

\* a bug: the native map is consulted first
SelectNativeFirst(builderJson, executorsJson, builderName) ==
  IF HasOwn(builderJson, builderName)
  THEN [found |-> TRUE, builderInfo |-> builderJson.o[builderName],
        isNx |-> IF ~IsNullish(executorsJson) THEN Bool(FALSE) ELSE Null]
  ELSE IF ~IsNullish(executorsJson) /\ HasOwn(executorsJson, builderName)
  THEN [found |-> TRUE, builderInfo |-> executorsJson.o[builderName], isNx |-> Bool(TRUE)]
  ELSE [found |-> FALSE, builderInfo |-> Undefined, isNx |-> Null]

\* a bug: a native entry is always marked "definitely native"
SelectAlwaysFalse(builderJson, executorsJson, builderName) ==
  IF ~IsNullish(executorsJson) /\ HasOwn(executorsJson, builderName)
  THEN [found |-> TRUE, builderInfo |-> executorsJson.o[builderName], isNx |-> Bool(TRUE)]
  ELSE IF HasOwn(builderJson, builderName)
  THEN [found |-> TRUE, builderInfo |-> builderJson.o[builderName], isNx |-> Bool(FALSE)]
  ELSE [found |-> FALSE, builderInfo |-> Undefined, isNx |-> Null]

\* the choice between the executors entry and the builders entry
SelectBuilderInfo(builderJson, executorsJson, builderName) ==
  IF ~IsNullish(executorsJson) /\ HasOwn(executorsJson, builderName)
  THEN [found |-> TRUE, builderInfo |-> executorsJson.o[builderName], isNx |-> Bool(TRUE)]
  ELSE IF HasOwn(builderJson, builderName)
  THEN [found |-> TRUE, builderInfo |-> builderJson.o[builderName],
        isNx |-> IF ~IsNullish(executorsJson) THEN Bool(FALSE) ELSE Null]
  ELSE [found |-> FALSE, builderInfo |-> Undefined, isNx |-> Null]

\* the lookup of builderName in the loaded maps
SelectedBuilder(loaded, selected, packageName, builderName) ==
  IF selected.found
  THEN Return(<<loaded.value[1], selected.builderInfo, selected.isNx>>, loaded.io)
  ELSE Throw("UnknownBuilderError", "Can't find builder in package",
             <<builderName, packageName>>, loaded.io)

\* ResolverFacade.resolveBuilder: returns <<builderPath, builderInfo, isNx>>
ResolverResolveBuilder(w, packageName, builderName, builderSpec) ==
  CHOOSE outcome \in
    {IF loaded.kind # "return" THEN loaded
     ELSE SelectedBuilder(loaded,
                          SelectBuilderInfo(loaded.value[2], loaded.value[3], builderName),
                          packageName, builderName) :
       loaded \in {loadBuilderJson(w, packageName, builderSpec)}} : TRUE

\* implementation "path#export" split on the first "#"
ImplementationParts(implementation) ==
  IF Includes(implementation, "#")
  THEN [path |-> SubSeq(implementation, 1, IndexOf(implementation, "#") - 1),
        export |-> Str(SubSeq(implementation, IndexOf(implementation, "#") + 1,
                              Len(implementation)))]
  ELSE [path |-> implementation, export |-> Null]

\* the packageName field of the returned SnuggeryBuilderInfo
InfoPackageName(packageName) == Str(packageName)

\* the SnuggeryBuilderInfo resolveBuilder returns
BuilderInfo(packageName, builderName, builderPath, builderInfo, optionSchema, parts, isNx) ==
  [packageName |-> InfoPackageName(packageName),
   builderName |-> builderName,
   description |->
     IF TypeOf(Get(builderInfo, K("description"))) = "string"
     THEN Get(builderInfo, K("description")) ELSE Undefined,
   optionSchema |-> optionSchema,
   implementationPath |-> join(dirname(builderPath), parts.path),
   implementationExport |-> parts.export,
   isNx |-> isNx]

\* resolveBuilder from the load of the schema document at schemaPath on
LoadSchema(w, packageName, builderName, builderPath, builderInfo, isNx, schemaPath, io) ==
  IF schemaPath \notin DOMAIN w.docs
  THEN Throw("InvalidBuilderError", "Couldn't load schema",
             <<schemaPath, builderName, packageName>>, io)
  ELSE IF ~isJsonObject(w.docs[schemaPath])
  THEN Throw("InvalidBuilderError", "Invalid schema",
             <<schemaPath, builderName, packageName>>, io)
  ELSE Return(BuilderInfo(packageName, builderName, builderPath, builderInfo,
                          w.docs[schemaPath],
                          ImplementationParts(Get(builderInfo, K("implementation")).s),
                          isNx), io)

\* resolveBuilder after the entry is found: validation, schema, implementation
DescribeBuilder(w, packageName, builderName, builderPath, builderInfo, isNx, io) ==
  IF ~isJsonObject(builderInfo)
     \/ TypeOf(Get(builderInfo, K("implementation"))) # "string"
     \/ TypeOf(Get(builderInfo, K("schema"))) \notin {"string", "boolean"}
  THEN Throw("InvalidBuilderError", "Invalid configuration for builder",
             IF packageName # <<"$direct">> THEN <<builderName, packageName>>
             ELSE <<builderName>>, io)
  ELSE IF TypeOf(Get(builderInfo, K("schema"))) = "boolean"
  THEN Return(BuilderInfo(packageName, builderName, builderPath, builderInfo,
                          Get(builderInfo, K("schema")),
                          ImplementationParts(Get(builderInfo, K("implementation")).s),
                          isNx), io)
  ELSE CHOOSE outcome \in
         {LoadSchema(w, packageName, builderName, builderPath, builderInfo, isNx,
                     schemaPath, Append(io, Event("require", <<>>, schemaPath))) :
            schemaPath \in {join(dirname(builderPath), Get(builderInfo, K("schema")).s)}} :
         TRUE

\* resolveBuilder once the specifier is split into packageName and builderName
ResolveParts(w, builderSpec, packageName, builderName) ==
  CHOOSE outcome \in
    {IF found.kind # "return" THEN found
     ELSE DescribeBuilder(w, packageName, builderName, found.value[1].s,
                          found.value[2], found.value[3], found.io) :
       found \in {IF packageName = <<"$direct">>
                  THEN resolveBuilderFromPath(w, builderName)
                  ELSE ResolverResolveBuilder(w, packageName, builderName, builderSpec)}} :
    TRUE

\* SnuggeryArchitectHost.resolveBuilder
resolveBuilder(w, builderSpec) ==
  CHOOSE outcome \in
    {IF Len(parts) < 2
     THEN Throw("InvalidBuilderSpecifiedError", "Builders must list a collection",
                <<>>, <<>>)
     ELSE ResolveParts(w, builderSpec, parts[1], parts[2]) :
       parts \in {Split(builderSpec, ":", 2)}} : TRUE

(***************************************************************************)
(* loadBuilder.                                                            *)
(***************************************************************************)
\* WorkspaceFacade.convertExecutorIntoBuilder: wraps the executor into a
\* builder; the result carries the builder tag and is not the executor itself
convertExecutorIntoBuilder(executor) ==
  Value("object", <<"converted">>, FALSE, 0, K("executor") :> executor, TRUE)

\* a bug: the schema marker overrides an explicit "definitely native"
UsesAdapterIgnoringFalse(info) ==
  info.isNx = Bool(TRUE)
  \/ (TypeOf(info.optionSchema) = "object"
      /\ Get(info.optionSchema, K("cli")) = Str(<<"nx">>))

\* a bug: only the explicit flag selects the adapter
UsesAdapterFlagOnly(info) == info.isNx = Bool(TRUE)

\* info.isNx || (info.isNx !== false && typeof info.optionSchema === 'object'
\*               && info.optionSchema.cli === 'nx')
UsesAdapter(info) ==
  info.isNx = Bool(TRUE)
  \/ (info.isNx # Bool(FALSE)
      /\ TypeOf(info.optionSchema) = "object"
      /\ Get(info.optionSchema, K("cli")) = Str(<<"nx">>))

\* the export loadBuilder selects from the imported module
SelectExport(module, implementationExport) ==
  IF ~IsNullish(implementationExport)
  THEN Get(module, implementationExport.s)
  ELSE DefaultOrModule(module)

\* SnuggeryArchitectHost.loadBuilder
loadBuilder(w, info) ==
  LET io == <<Event("import", <<>>, info.implementationPath)>>
  IN IF info.implementationPath \notin DOMAIN w.modules
     THEN Throw("InvalidBuilderError", "Failed to load implementation",
                <<info.builderName, info.packageName.s, <<"cause">>>>, io)
     ELSE LET implementation ==
                SelectExport(w.modules[info.implementationPath], info.implementationExport)
          IN IF IsNullish(implementation)
             THEN Throw("InvalidBuilderError", "Failed to load implementation",
                        <<info.builderName, info.packageName.s>>, io)
             ELSE IF info.isNx # Bool(TRUE) /\ info.isNx # Bool(FALSE)
                     /\ info.optionSchema = Null
             THEN Throw("TypeError", "Cannot read properties of null", <<>>, io)
             ELSE IF UsesAdapter(info)
             THEN Return(convertExecutorIntoBuilder(implementation), io)
             ELSE IF TypeOf(implementation) \notin {"object", "function"}
             THEN Throw("TypeError", "Cannot use 'in' operator", <<>>, io)
             ELSE IF ~isBuilder(implementation)
             THEN Throw("InvalidBuilderError", "is not a builder",
                        <<info.builderName, info.packageName.s>>, io)
             ELSE Return(implementation, io)

(***************************************************************************)
(* getOptionsForTarget.                                                    *)
(***************************************************************************)
\* a bug: nested objects are merged instead of replaced
RECURSIVE DeepAssign(_, _)
DeepAssign(target, source) ==
  Obj([k \in DOMAIN target.o \cup DOMAIN source.o |->
        IF k \notin DOMAIN source.o THEN target.o[k]
        ELSE IF k \in DOMAIN target.o /\ isJsonObject(target.o[k])
                /\ isJsonObject(source.o[k])
        THEN DeepAssign(target.o[k], source.o[k])
        ELSE source.o[k]])

\* Object.assign(target, source) on plain objects
ObjectAssign(target, source) ==
  Obj([k \in DOMAIN target.o \cup DOMAIN source.o |->
        IF k \in DOMAIN source.o THEN source.o[k] ELSE target.o[k]])

\* getProject and getTarget: the target definition, or the error
getTarget(w, target) ==
  IF ~w.hasWorkspace \/ target.project \notin DOMAIN w.projects
  THEN Throw("UnknownTargetError", "Unknown project", <<target.project>>, <<>>)
  ELSE IF target.target \notin DOMAIN w.projects[target.project].targets
  THEN Throw("UnknownTargetError", "No target found in project",
             <<target.target, target.project>>, <<>>)
  ELSE Return(w.projects[target.project].targets[target.target], <<>>)

\* target.configuration?.split(',') || []
ConfigurationNames(target) ==
  IF IsNullish(target.configuration) THEN <<>>
  ELSE SplitAll(target.configuration.s, ",")

\* targetDefinition.configurations?.[configuration]
ConfigurationOptions(targetDefinition, configuration) ==
  IF IsNullish(targetDefinition.configurations) THEN Undefined
  ELSE Get(targetDefinition.configurations, configuration)

\* a bug: an unknown configuration is skipped
RECURSIVE ApplySkippingUnknown(_, _, _, _)
ApplySkippingUnknown(names, targetDefinition, options, target) ==
  IF Len(names) = 0 THEN Return(options, <<>>)
  ELSE LET configurationOptions == ConfigurationOptions(targetDefinition, Head(names))
       IN IF IsNullish(configurationOptions)
          THEN ApplySkippingUnknown(Tail(names), targetDefinition, options, target)
          ELSE ApplySkippingUnknown(Tail(names), targetDefinition,
                                    ObjectAssign(options, configurationOptions), target)

RECURSIVE ApplyConfigurations(_, _, _, _)
\* the loop of getOptionsForTarget over the configuration names
ApplyConfigurations(names, targetDefinition, options, target) ==
  IF Len(names) = 0 THEN Return(options, <<>>)
  ELSE LET configurationOptions == ConfigurationOptions(targetDefinition, Head(names))
       IN IF IsNullish(configurationOptions)
          THEN Throw("UnknownConfigurationError", "doesn't have a configuration named",
                     <<target.target, target.project, Head(names)>>, <<>>)
          ELSE ApplyConfigurations(Tail(names), targetDefinition,
                                   ObjectAssign(options, configurationOptions), target)

\* getOptionsForTarget
getOptionsForTarget(w, target) ==
  LET found == getTarget(w, target)
  IN IF found.kind # "return" THEN found
     ELSE LET targetDefinition == found.value
              options == IF ~IsNullish(targetDefinition.options)
                         THEN ObjectAssign(Obj(Empty), targetDefinition.options)
                         ELSE Obj(Empty)
          IN ApplyConfigurations(ConfigurationNames(target), targetDefinition,
                                 options, target)

(***************************************************************************)
(* Inputs of the calls.                                                    *)
(***************************************************************************)
Strings(atoms, maxLen) == UNION {[1..n -> atoms] : n \in 0..maxLen}

SpecAtoms == {":", "$direct", "pkg", "foo"}
Specifiers == Strings(SpecAtoms, MaxSpecLen)

ConfAtoms == {",", "c1", "c2"}
Targets ==
  [project : {K("app"), K("lib")},
   target : {K("build"), K("test")},
   configuration : {Undefined} \cup {Str(s) : s \in Strings(ConfAtoms, MaxConfLen)}]

OptionSchemas ==
  {Bool(TRUE), Bool(FALSE), Obj(Empty), SchemaDoc, Obj(K("cli") :> Str(<<"ng">>))}

\* descriptors handed to loadBuilder by a caller
Infos ==
  [packageName : {Str(<<"pkg">>)},
   builderName : {<<"foo">>},
   description : {Undefined},
   optionSchema : OptionSchemas,
   implementationPath : ModulePaths,
   implementationExport : {Null, Str(<<"run">>)},
   isNx : {Bool(TRUE), Bool(FALSE), Null}]

(***************************************************************************)
(* The host: one call at a time.  world is the environment the host was    *)
(* constructed in; call is the call in progress or just finished, result   *)
(* its outcome.                                                            *)
(***************************************************************************)
VARIABLES world, pc, call, result
vars == <<world, pc, call, result>>

NoCall == [op |-> "none", arg |-> Undefined]
NoResult == [kind |-> "none", error |-> NoError, value |-> Undefined, io |-> <<>>]

Init ==
  /\ world \in Worlds
  /\ pc = "idle"
  /\ call = NoCall
  /\ result = NoResult

\* resolveBuilder(builderSpec)
ResolveBuilder ==
  /\ pc = "idle"
  /\ \E builderSpec \in Specifiers :
       /\ call' = [op |-> "resolveBuilder", arg |-> builderSpec]
       /\ result' = resolveBuilder(world, builderSpec)
       /\ pc' = "done"
       /\ UNCHANGED world

\* loadBuilder(info) on a descriptor made by the caller
LoadBuilder ==
  /\ pc = "idle"
  /\ \E info \in Infos :
       /\ call' = [op |-> "loadBuilder", arg |-> info]
       /\ result' = loadBuilder(world, info)
       /\ pc' = "done"
       /\ UNCHANGED world

\* loadBuilder(info) on the descriptor resolveBuilder just returned
LoadResolved ==
  /\ pc = "done"
  /\ call.op = "resolveBuilder"
  /\ result.kind = "return"
  /\ call' = [op |-> "loadBuilder", arg |-> result.value]
  /\ result' = loadBuilder(world, result.value)
  /\ pc' = "done"
  /\ UNCHANGED world

\* getOptionsForTarget(target)
GetOptionsForTarget ==
  /\ pc = "idle"
  /\ \E target \in Targets :
       /\ call' = [op |-> "getOptionsForTarget", arg |-> target]
       /\ result' = getOptionsForTarget(world, target)
       /\ pc' = "done"
       /\ UNCHANGED world

\* the caller takes the outcome; the host keeps nothing of the call
Finish ==
  /\ pc = "done"
  /\ pc' = "idle"
  /\ call' = NoCall
  /\ result' = NoResult
  /\ UNCHANGED world

Next ==
  \/ ResolveBuilder
  \/ LoadBuilder
  \/ LoadResolved
  \/ GetOptionsForTarget
  \/ Finish

Spec == Init /\ [][Next]_vars
(***************************************************************************)
(* Properties.                                                             *)
(***************************************************************************)
\* a call of resolveBuilder has just finished; call.arg is its specifier
Resolved == pc = "done" /\ call.op = "resolveBuilder"
\* a call of loadBuilder has just finished; call.arg is its descriptor
Loaded == pc = "done" /\ call.op = "loadBuilder"
\* a call of getOptionsForTarget has just finished; call.arg is its target
OptionsAsked == pc = "done" /\ call.op = "getOptionsForTarget"

HasSeparator == Includes(call.arg, ":")
\* the text before the first ":" of the specifier
PackageSegment == SubSeq(call.arg, 1, IndexOf(call.arg, ":") - 1)
\* all of the text after the first ":" of the specifier
Remainder == SubSeq(call.arg, IndexOf(call.arg, ":") + 1, Len(call.arg))
\* the name resolveBuilder looks up
LookedUpName == Split(call.arg, ":", 2)[2]

\* the manifest of package "pkg": the document its maps are read from
Manifest ==
  IF world.manifestPath \in DOMAIN world.docs
  THEN world.docs[world.manifestPath] ELSE Undefined
NativeMap == Get(Manifest, K("builders"))
AlternateMap == Get(Manifest, K("executors"))
HasAlternateMap == isJsonObject(AlternateMap)
InNative(name) == HasOwn(NativeMap, name)
InAlternate(name) == HasAlternateMap /\ HasOwn(AlternateMap, name)

\* an entry passes the structural validation of resolveBuilder
ValidEntry(entry) ==
  /\ entry.t = "object"
  /\ K("implementation") \in DOMAIN entry.o
  /\ entry.o[K("implementation")].t = "string"
  /\ K("schema") \in DOMAIN entry.o
  /\ entry.o[K("schema")].t \in {"string", "boolean"}

\* the environment without the native entry `name` of the manifest
WithoutNative(w, name) ==
  [w EXCEPT !.docs =
     [p \in DOMAIN w.docs |->
        IF p # w.manifestPath THEN w.docs[p]
        ELSE Obj([k \in DOMAIN w.docs[p].o |->
                    IF k # K("builders") THEN w.docs[p].o[k]
                    ELSE Obj([n \in DOMAIN w.docs[p].o[k].o \ {name} |->
                                w.docs[p].o[k].o[n]])])]]

\* C1 (as claimed): the name segment is all of the text after the first ":":
\* a returned descriptor names the whole remainder, and a direct reference
\* resolves the whole remainder as module path.
C1_NameIsWholeRemainder ==
  (Resolved /\ HasSeparator) =>
    /\ result.kind = "return" => result.value.builderName = Remainder
    /\ PackageSegment = <<"$direct">> =>
         \A i \in 1..Len(result.io) :
           result.io[i].op = "resolve" => result.io[i].path = Remainder

\* C2: when the looked-up name is a key of both maps of the manifest, the
\* outcome is that of the executors entry alone: it is the outcome of the same
\* call on the manifest without the native entry, a returned descriptor has
\* isNx true and the description of the executors entry, and an invalid
\* executors entry fails with InvalidBuilderError.
C2_ExecutorsEntryWins ==
  (Resolved /\ HasSeparator /\ PackageSegment = <<"pkg">>
     /\ InNative(LookedUpName) /\ InAlternate(LookedUpName)) =>
    /\ result = resolveBuilder(WithoutNative(world, LookedUpName), call.arg)
    /\ result.kind = "return" =>
         /\ result.value.isNx = Bool(TRUE)
         /\ result.value.description = Get(AlternateMap.o[LookedUpName], K("description"))
         /\ AlternateMap.o[LookedUpName].o[K("schema")].t = "boolean" =>
              result.value.optionSchema = AlternateMap.o[LookedUpName].o[K("schema")]
    /\ ValidEntry(AlternateMap.o[LookedUpName]) => result.kind = "return"
    /\ ~ValidEntry(AlternateMap.o[LookedUpName]) =>
         result.kind = "throw" /\ result.error.name = "InvalidBuilderError"

\* C2 witness: both maps hold the name with different entries, and the
\* descriptor of the executors entry is returned
C2_Witness ==
  /\ Resolved /\ HasSeparator /\ PackageSegment = <<"pkg">>
  /\ InNative(LookedUpName) /\ InAlternate(LookedUpName)
  /\ NativeMap.o[LookedUpName] = EntryA
  /\ AlternateMap.o[LookedUpName] = EntryB
  /\ result.kind = "return"
  /\ result.value.implementationPath = PkgDir(WorkspaceBase) \o <<"/", "b">>

\* C3: isNx of a returned descriptor is true exactly when the name is a key of
\* the executors map, false exactly when there is an executors map without
\* the name, null exactly when there is no executors map or the specifier
\* is a direct reference.
C3_IsNxTriState ==
  (Resolved /\ result.kind = "return") =>
    LET direct == PackageSegment = <<"$direct">>
        name == result.value.builderName
    IN /\ result.value.isNx \in {Bool(TRUE), Bool(FALSE), Null}
       /\ result.value.isNx = Bool(TRUE) <=> (~direct /\ InAlternate(name))
       /\ result.value.isNx = Bool(FALSE) <=>
            (~direct /\ HasAlternateMap /\ ~InAlternate(name) /\ InNative(name))
       /\ result.value.isNx = Null <=> (direct \/ ~HasAlternateMap)

\* C3 witness: an executors map exists, the name is only in the native map
C3_Witness ==
  /\ Resolved /\ result.kind = "return"
  /\ PackageSegment = <<"pkg">>
  /\ HasAlternateMap /\ ~InAlternate(result.value.builderName)
  /\ result.value.isNx = Bool(FALSE)

\* the module loadBuilder imports exists
ModuleLoads == call.arg.implementationPath \in DOMAIN world.modules
\* the export loadBuilder selects
Selected ==
  IF call.arg.implementationExport.t = "string"
  THEN Get(world.modules[call.arg.implementationPath], call.arg.implementationExport.s)
  ELSE IF Get(world.modules[call.arg.implementationPath], K("default")).t
          \in {"null", "undefined"}
  THEN world.modules[call.arg.implementationPath]
  ELSE Get(world.modules[call.arg.implementationPath], K("default"))
\* the descriptor's schema is an object carrying the nx marker
SchemaHasMarker ==
  /\ call.arg.optionSchema.t = "object"
  /\ K("cli") \in DOMAIN call.arg.optionSchema.o
  /\ call.arg.optionSchema.o[K("cli")] = Str(<<"nx">>)
\* the outcome is the selected export wrapped by the adapter
WasAdapted ==
  /\ result.kind = "return"
  /\ result.value # Selected
  /\ result.value.s = <<"converted">>
  /\ Get(result.value, K("executor")) = Selected

\* C4 (as claimed): a builder-tagged default export is returned unchanged
\* whenever isNx is false or null, whatever the option schema.
C4_TaggedReturnedWhateverSchema ==
  (Loaded /\ ModuleLoads /\ call.arg.implementationExport = Null
     /\ Selected.sym /\ call.arg.isNx \in {Bool(FALSE), Null}) =>
    (result.kind = "return" /\ result.value = Selected)

\* C4 (amended): a builder-tagged default export is returned unchanged when
\* isNx is false, or isNx is null and the schema does not carry the nx marker.
C4_TaggedReturnedUnchanged ==
  (Loaded /\ ModuleLoads /\ call.arg.implementationExport = Null
     /\ Selected.sym
     /\ (call.arg.isNx = Bool(FALSE) \/ (call.arg.isNx = Null /\ ~SchemaHasMarker))) =>
    (result.kind = "return" /\ result.value = Selected)

\* C4 witness: isNx false, a schema with the marker, the tagged export returned
C4_Witness ==
  /\ Loaded /\ ModuleLoads /\ call.arg.implementationExport = Null
  /\ Selected.sym /\ call.arg.isNx = Bool(FALSE) /\ SchemaHasMarker
  /\ result.kind = "return" /\ result.value = Selected

\* C5: a loaded, non-null implementation goes through the adapter exactly
\* when isNx is true, or isNx is null and the schema carries the nx marker.
C5_AdapterDecision ==
  (Loaded /\ ModuleLoads /\ Selected.t \notin {"null", "undefined"}) =>
    (WasAdapted <=>
       (call.arg.isNx = Bool(TRUE) \/ (call.arg.isNx = Null /\ SchemaHasMarker)))

\* C5 witness: a resolved descriptor with isNx false whose schema carries the
\* marker is loaded, and the adapter is not used
C5_Witness ==
  /\ Loaded /\ ModuleLoads /\ Selected.t \notin {"null", "undefined"}
  /\ call.arg.isNx = Bool(FALSE) /\ SchemaHasMarker
  /\ call.arg.implementationPath \notin ModulePaths
  /\ ~WasAdapted

\* C6 (as claimed): the descriptor of a directly referenced builder has
\* packageName null.
C6_DirectHasNoPackageName ==
  (Resolved /\ result.kind = "return" /\ PackageSegment = <<"$direct">>) =>
    result.value.packageName = Null

\* the target of the call exists in the workspace
TargetKnown ==
  /\ world.hasWorkspace
  /\ call.arg.project \in DOMAIN world.projects
  /\ call.arg.target \in DOMAIN world.projects[call.arg.project].targets
TargetDefinition == world.projects[call.arg.project].targets[call.arg.target]
\* the names of the comma-separated configuration list of the call
RequestedNames ==
  IF call.arg.configuration.t = "undefined" THEN <<>>
  ELSE SplitAll(call.arg.configuration.s, ",")
\* the target definition has a configuration of this name
KnownConfiguration(name) ==
  /\ TargetDefinition.configurations.t = "object"
  /\ name \in DOMAIN TargetDefinition.configurations.o
\* positions of the list whose name the target definition lacks
AbsentPositions ==
  {i \in 1..Len(RequestedNames) : ~KnownConfiguration(RequestedNames[i])}
\* the base options, then the options of each requested configuration
Layers ==
  <<IF TargetDefinition.options.t = "object"
    THEN TargetDefinition.options ELSE Obj(Empty)>>
  \o [i \in 1..Len(RequestedNames) |->
        TargetDefinition.configurations.o[RequestedNames[i]]]
\* the layers that define key k
Defining(k) == {i \in 1..Len(Layers) : k \in DOMAIN Layers[i].o}

\* C7: getOptionsForTarget returns the left-to-right shallow overlay of the
\* base options and the listed configurations: the result has exactly the keys
\* of the layers, each with the whole value of the last layer defining it.
C7_ShallowOverlay ==
  (OptionsAsked /\ TargetKnown /\ AbsentPositions = {}) =>
    /\ result.kind = "return"
    /\ result.value.t = "object"
    /\ DOMAIN result.value.o = UNION {DOMAIN Layers[i].o : i \in 1..Len(Layers)}
    /\ \A k \in DOMAIN result.value.o :
         \E i \in Defining(k) :
           /\ \A j \in Defining(k) : j <= i
           /\ result.value.o[k] = Layers[i].o[k]

\* C7 witness: {a:1, b:{x:1}} overlaid with c1 = {b:{y:1}} and c2 = {a:2}
C7_Witness ==
  /\ OptionsAsked /\ TargetKnown
  /\ call.arg.configuration = Str(<<"c1", ",", "c2">>)
  /\ TargetDefinition.options = Obj(K("a") :> Num(1) @@ K("b") :> Obj(K("x") :> Num(1)))
  /\ result.kind = "return"
  /\ result.value = Obj(K("a") :> Num(2) @@ K("b") :> Obj(K("y") :> Num(1)))

C9_MissingSeparator ==
  Resolved =>
    /\ ~HasSeparator =>
         /\ result.kind = "throw"
         /\ result.error.name = "InvalidBuilderSpecifiedError"
         /\ result.io = <<>>
    /\ HasSeparator => result.error.name # "InvalidBuilderSpecifiedError"

\* C9 witness: a package name alone, in an environment that has the package
C9_Witness ==
  /\ Resolved
  /\ call.arg = <<"pkg">>
  /\ <<world.startCwd, <<"pkg", "/", "package.json">>>> \in DOMAIN world.resolve
  /\ result.kind = "throw"
  /\ result.error.name = "InvalidBuilderSpecifiedError"

\* the base paths from which the direct request of the call resolves
ResolvingBases ==
  {i \in 1..Len(BasePaths(world)) :
     <<BasePaths(world)[i], Remainder>> \in DOMAIN world.resolve}
\* the direct request resolves to this file
ResolvesTo(file) ==
  \E i \in ResolvingBases :
    /\ \A j \in ResolvingBases : i <= j
    /\ file = world.resolve[<<BasePaths(world)[i], Remainder>>]
\* the module in this file exports a builder-tagged value
ExportsTagged(file) ==
  /\ file \in DOMAIN world.modules
  /\ \/ Get(world.modules[file], K("default")).sym
     \/ /\ Get(world.modules[file], K("default")).t \in {"null", "undefined"}
        /\ world.modules[file].sym

\* C10 (as claimed): for "$direct:X" with X resolving to a module that
\* exports a builder-tagged value, the descriptor has optionSchema true,
\* implementationPath the resolved file, implementationExport null and isNx
\* null, whatever the name of the resolved file.
C10_DirectTaggedDescriptor ==
  (Resolved /\ HasSeparator /\ PackageSegment = <<"$direct">>
     /\ ~Includes(Remainder, ":")) =>
    \A file \in DOMAIN world.modules :
      (ResolvesTo(file) /\ ExportsTagged(file)) =>
        /\ result.kind = "return"
        /\ result.value.optionSchema = Bool(TRUE)
        /\ result.value.implementationPath = file
        /\ result.value.implementationExport = Null
        /\ result.value.isNx = Null

\* the candidate directories: the start directory, then the workspace base
\* path unless it is the start directory
Candidates ==
  IF world.hasWorkspace /\ world.basePath # world.startCwd
  THEN <<world.startCwd, world.basePath>>
  ELSE <<world.startCwd>>
JsonRequest == <<"pkg", "/", "package.json">>
BareRequest == <<"pkg">>
\* the directory resolves one of the two requests for the package
FoundIn(base) ==
  \/ <<base, JsonRequest>> \in DOMAIN world.resolve
  \/ <<base, BareRequest>> \in DOMAIN world.resolve
\* the file the package resolves to in a directory that resolves it
FoundFile(base) ==
  IF <<base, JsonRequest>> \in DOMAIN world.resolve
  THEN world.resolve[<<base, JsonRequest>>]
  ELSE world.resolve[<<base, BareRequest>>]
\* the resolutions tried in one directory: package.json, then the bare name
\* when package.json does not resolve
VisitOf(base) ==
  IF <<base, JsonRequest>> \in DOMAIN world.resolve
  THEN <<Event("resolve", base, JsonRequest)>>
  ELSE <<Event("resolve", base, JsonRequest), Event("resolve", base, BareRequest)>>
\* the resolutions of an ordered search that stops at the first directory
\* resolving the package
ExpectedResolves ==
  VisitOf(Candidates[1])
  \o (IF ~FoundIn(Candidates[1]) /\ Len(Candidates) = 2
      THEN VisitOf(Candidates[2]) ELSE <<>>)
\* the candidate directories that resolve the package
Deciding == {i \in 1..Len(Candidates) : FoundIn(Candidates[i])}
IsResolve(e) == e.op = "resolve"
IsRequire(e) == e.op = "require"
\* the search ended with "not found"
NotFound ==
  /\ result.kind = "throw"
  /\ result.error.name = "UnknownBuilderError"
  /\ result.error.message = "Couldn't find builder configuration"

\* C11: the manifest search tries the start directory, then the workspace
\* base path when it is another directory, each once, package.json before
\* the bare name, and stops at the first directory that resolves the package:
\* that directory's manifest decides the call (a manifest that cannot be
\* loaded or lacks a builders map is InvalidBuilderError), and "not found" is
\* raised exactly when no directory resolves the package.
C11_OrderedSearch ==
  (Resolved /\ HasSeparator /\ PackageSegment = <<"pkg">>) =>
    /\ SelectSeq(result.io, IsResolve) = ExpectedResolves
    /\ NotFound <=> Deciding = {}
    /\ \A i \in Deciding :
         (\A j \in Deciding : i <= j) =>
           /\ SelectSeq(result.io, IsRequire)[1].path = FoundFile(Candidates[i])
           /\ FoundFile(Candidates[i]) \notin DOMAIN world.docs =>
                /\ result.kind = "throw"
                /\ result.error.name = "InvalidBuilderError"
                /\ Len(SelectSeq(result.io, IsRequire)) = 1
           /\ (/\ FoundFile(Candidates[i]) \in DOMAIN world.docs
               /\ ~HasOwn(world.docs[FoundFile(Candidates[i])], K("builders"))) =>
                /\ result.kind = "throw"
                /\ result.error.name = "InvalidBuilderError"

\* C11 witness: the start directory resolves a package.json that cannot be
\* loaded, the workspace directory holds a good one, and the call fails
\* without a resolution in the workspace directory
C11_Witness ==
  /\ Resolved /\ HasSeparator /\ PackageSegment = <<"pkg">>
  /\ Len(Candidates) = 2
  /\ FoundIn(Candidates[1]) /\ FoundIn(Candidates[2])
  /\ FoundFile(Candidates[1]) \notin DOMAIN world.docs
  /\ FoundFile(Candidates[2]) \in DOMAIN world.docs
  /\ result.kind = "throw"
  /\ result.error.name = "InvalidBuilderError"
  /\ \A k \in 1..Len(result.io) : result.io[k].base # Candidates[2]

\* the document the search loads first
StartDocument == FoundFile(Candidates[CHOOSE i \in Deciding : \A j \in Deciding : i <= j])
\* the document at path can be loaded and its `builders` is a string
IsPointer(path) ==
  /\ path \in DOMAIN world.docs
  /\ Get(world.docs[path], K("builders")).t = "string"
\* the path the pointer of the document at path names
PointerOf(path) == join(dirname(path), world.docs[path].o[K("builders")].s)
RECURSIVE PointerChain(_, _)
\* the paths met from path on by following at most fuel pointers
PointerChain(path, fuel) ==
  IF fuel = 0 \/ ~IsPointer(path) THEN <<path>>
  ELSE <<path>> \o PointerChain(PointerOf(path), fuel - 1)
\* the chain from the start document; with as many pointers followed as there
\* are documents, a chain that still ends at a pointer has met a document twice
Chain == PointerChain(StartDocument, Cardinality(DOMAIN world.docs))
FinalPath == Chain[Len(Chain)]
Cyclic == IsPointer(FinalPath)
FinalDocument == world.docs[FinalPath]
\* the entry of the final document the lookup of name selects
FinalEntry(name) ==
  IF HasOwn(Get(FinalDocument, K("executors")), name)
  THEN Get(FinalDocument, K("executors")).o[name]
  ELSE Get(FinalDocument, K("builders")).o[name]

\* C12: the manifest loader follows string `builders` pointers one document
\* at a time, each resolved against the directory of its document, up to the
\* first document whose `builders` is no string.  On an acyclic chain the
\* call ends: with the maps of the final document only, or with
\* InvalidBuilderError when a document cannot be loaded or the final
\* `builders` is missing or no object.  On a cycle it neither returns nor
\* raises.
C12_PointerChain ==
  (Resolved /\ HasSeparator /\ PackageSegment = <<"pkg">> /\ Deciding # {}) =>
    IF Cyclic THEN result.kind = "diverge"
    ELSE
      /\ result.kind \in {"return", "throw"}
      /\ Len(SelectSeq(result.io, IsRequire)) >= Len(Chain)
      /\ \A i \in 1..Len(Chain) : SelectSeq(result.io, IsRequire)[i].path = Chain[i]
      /\ FinalPath \notin DOMAIN world.docs =>
           /\ result.kind = "throw"
           /\ result.error.name = "InvalidBuilderError"
           /\ Len(SelectSeq(result.io, IsRequire)) = Len(Chain)
      /\ (/\ FinalPath \in DOMAIN world.docs
          /\ Get(FinalDocument, K("builders")).t # "object") =>
           /\ result.kind = "throw"
           /\ result.error.name = "InvalidBuilderError"
      /\ (/\ FinalPath \in DOMAIN world.docs
          /\ Get(FinalDocument, K("builders")).t = "object") =>
           /\ (/\ ~HasOwn(Get(FinalDocument, K("builders")), LookedUpName)
               /\ ~HasOwn(Get(FinalDocument, K("executors")), LookedUpName)) =>
                /\ result.kind = "throw"
                /\ result.error.name = "UnknownBuilderError"
           /\ result.kind = "return" =>
                /\ result.value.isNx =
                     (IF Get(FinalDocument, K("executors")).t = "object"
                      THEN Bool(HasOwn(Get(FinalDocument, K("executors")), LookedUpName))
                      ELSE Null)
                /\ result.value.implementationPath =
                     join(dirname(FinalPath),
                          ImplementationParts(
                            FinalEntry(LookedUpName).o[K("implementation")].s).path)

\* C12 witness: two documents point at each other and the call does not end
C12_Witness ==
  /\ Resolved /\ HasSeparator /\ PackageSegment = <<"pkg">> /\ Deciding # {}
  /\ Cyclic
  /\ PointerOf(StartDocument) # StartDocument
  /\ PointerOf(PointerOf(StartDocument)) = StartDocument
  /\ result.kind = "diverge"

\* the adapter is selected for the descriptor of the call
AdapterSelected ==
  call.arg.isNx = Bool(TRUE) \/ (call.arg.isNx = Null /\ SchemaHasMarker)

\* C13 (as claimed): a failing loadBuilder fails with InvalidBuilderError and
\* nothing else: "failed to load implementation" for an import failure or a
\* null or undefined export, "is not a builder" for any other untagged value
\* (object, function or primitive) when the adapter is not selected; a
\* returned value is tagged or adapted.
C13_OnlyInvalidBuilderError ==
  Loaded =>
    /\ result.kind \in {"return", "throw"}
    /\ result.kind = "throw" => result.error.name = "InvalidBuilderError"
    /\ (~ModuleLoads \/ Selected.t \in {"null", "undefined"}) =>
         /\ result.kind = "throw"
         /\ result.error.message = "Failed to load implementation"
    /\ (/\ ModuleLoads
        /\ Selected.t \notin {"null", "undefined"}
        /\ ~AdapterSelected
        /\ ~Selected.sym) =>
         /\ result.kind = "throw"
         /\ result.error.name = "InvalidBuilderError"
         /\ result.error.message = "is not a builder"
    /\ result.kind = "return" => (result.value.sym \/ WasAdapted)

====
